---- MODULE Spec2Model ----
(***************************************************************************)
(* A model of the arguments_parser library (src/src/lib.rs): the five     *)
(* value handlers, the Switch binding, and Arguments (new, usage, build,   *)
(* get_other_arguments).                                                   *)
(*                                                                         *)
(* Text is modelled as a sequence of one-character strings, so that the    *)
(* code's character tests (starts_with, last, skip, from_str) are computed *)
(* and not assumed.  Only ASCII text is drawn, for which str::len (bytes)  *)
(* and the number of characters agree.                                     *)
(*                                                                         *)
(* isize is modelled at the width of a 32-bit target (i686, wasm32, ...):  *)
(* the source compiles unchanged there, and the range is the one TLC's     *)
(* integers can compute in without overflowing themselves.                 *)
(***************************************************************************)
EXTENDS Integers, Sequences, FiniteSets, TLC

VARIABLES
    value,                 \* handler name -> its Cell / RefCell content
    validator,             \* the fn(isize) -> bool given to IntParameter / SizeParameter
    overflow_checks,       \* build profile: TRUE panics on `size * multiplier` overflow
    switch_map,            \* Arguments.switch_map: set of <<key, Switch>> (a HashMap)
    ext_switch_map,        \* Arguments.ext_switch_map
    other_arguments,       \* Arguments.other_arguments
    other_argument_names,  \* Arguments.other_argument_names: <<>> is None, <<l>> is Some(l)
    pc,                    \* "idle" | "scan" (inside build's loop) | "done" | "panicked"
    args,                  \* build's argument: the token list
    i,                     \* build's loop position: args[i] is the next token
    current_parameter,     \* build's local: <<>> is None, <<sw>> is Some(&sw)
    result,                \* what the last call returned
    call,                  \* the last direct call: [op, h, text]
    out,                   \* what usage() printed: the sequence of lines
    switches,              \* the caller's switch array, given to Arguments::new
    used                   \* tokens handed to build so far (bounds the exploration)

vars == <<value, validator, overflow_checks, switch_map, ext_switch_map,
          other_arguments, other_argument_names, pc, args, i,
          current_parameter, result, call, out, switches, used>>

argvars == <<switch_map, ext_switch_map, other_arguments, other_argument_names,
             args, i, current_parameter, switches, used>>

(***************************************************************************)
(* Bounds of the exploration.                                              *)
(***************************************************************************)
MaxTextLen == 2      \* parse_value is called with every text this long over ParseChars
MaxTokens == 4       \* tokens handed to build, over all the calls of a behaviour
MaxSwitches == 2     \* length of the switch lists given to Arguments::new for usage()

(***************************************************************************)
(* isize                                                                   *)
(***************************************************************************)
ISIZE_MAX == 2147483647
ISIZE_MIN == -ISIZE_MAX - 1

None == <<>>
Some(x) == <<x>>

Ok(v) == [ok |-> TRUE, v |-> v]
Err == [ok |-> FALSE, v |-> 0]

Digits == {"0", "1", "2", "3", "4", "5", "6", "7", "8", "9"}

to_digit(c) ==
    CASE c = "0" -> 0 [] c = "1" -> 1 [] c = "2" -> 2 [] c = "3" -> 3
      [] c = "4" -> 4 [] c = "5" -> 5 [] c = "6" -> 6 [] c = "7" -> 7
      [] c = "8" -> 8 [] c = "9" -> 9

\* The digit loop of from_str: checked_mul(10) then checked_add / checked_sub
\* of the digit, accumulating negatively for a negative number.
RECURSIVE from_str_digits(_, _, _)
from_str_digits(s, acc, positive) ==
    IF s = <<>> THEN Ok(acc)
    ELSE IF Head(s) \notin Digits THEN Err
    ELSE LET d == to_digit(Head(s)) IN
         IF positive
         THEN IF acc > (ISIZE_MAX - d) \div 10 THEN Err
              ELSE from_str_digits(Tail(s), acc * 10 + d, positive)
         ELSE IF acc < (ISIZE_MIN + d + 9) \div 10 THEN Err
              ELSE from_str_digits(Tail(s), acc * 10 - d, positive)

\* isize::from_str: an optional sign, then at least one digit, within range.
isize_from_str(s) ==
    IF s = <<>> THEN Err
    ELSE IF s = <<"+">> \/ s = <<"-">> THEN Err
    ELSE IF Head(s) = "+" THEN from_str_digits(Tail(s), 0, TRUE)
    ELSE IF Head(s) = "-" THEN from_str_digits(Tail(s), 0, FALSE)
    ELSE from_str_digits(s, 0, TRUE)

\* `size * multiplier` on isize.  multiplier is a power of two that divides
\* ISIZE_MAX + 1; the wrapped product is computed without leaving the range.
mul_overflows(size, multiplier) ==
    \/ size > ISIZE_MAX \div multiplier
    \/ size < ISIZE_MIN \div multiplier

wrapping_mul(size, multiplier) ==
    IF multiplier = 1 THEN size
    ELSE LET half == (ISIZE_MAX \div multiplier) + 1
             low == size % (2 * half)
         IN  IF low >= half THEN (low - 2 * half) * multiplier
             ELSE low * multiplier

(***************************************************************************)
(* Value handlers.  The handlers are the ones the repository's test        *)
(* constructs; a handler is named by the Switch name it is bound to there. *)
(***************************************************************************)
S_init == <<"i", "n", "i", "t">>
S_value == <<"v", "a", "l", "u", "e">>

Handlers ==
    [port           |-> [kind |-> "Int",    init |-> 6379],
     maximum_memory |-> [kind |-> "Size",   init |-> 1024 * 1024 * 1024],
     verbose        |-> [kind |-> "Bool",   init |-> FALSE],
     test           |-> [kind |-> "String", init |-> S_init],
     test_enum      |-> [kind |-> "Enum",   init |-> S_init, values |-> {S_value}]]

HandlerNames == DOMAIN Handlers

Validators == {"positive", "any"}

\* (self.validator)(v)
validate(f, v) ==
    CASE f = "positive" -> v > 0
      [] f = "any" -> TRUE

\* The outcome of a parse_value call: what it returned ("true", "false", or
\* "panic" when it unwound instead of returning) and the value it left.
Outcome(ret, v) == [ret |-> ret, value |-> v]

IntParameter_parse_value(cur, f, text) ==
    LET r == isize_from_str(text) IN
    IF r.ok /\ validate(f, r.v) THEN Outcome("true", r.v)
    ELSE Outcome("false", cur)

\* A parse_value that sets the value only while it is still the constructor's
StringParameter_parse_value_once(cur, text) ==
    Outcome("true", IF cur = S_init THEN text ELSE cur)

StringParameter_parse_value(cur, text) == Outcome("true", text)

EnumParameter_parse_value(cur, values, text) ==
    IF text \in values THEN Outcome("true", text)
    ELSE Outcome("false", cur)

BoolParameter_parse_value(cur, text) == Outcome("false", cur)

Size_multiplier(c) ==
    CASE c = "M" -> 1024 * 1024
      [] c = "K" -> 1024
      [] c = "G" -> 1024 * 1024 * 1024
      [] OTHER -> 1

\* chars.next_back(); chars.as_str()
strip_last(text) == SubSeq(text, 1, Len(text) - 1)

SizeParameter_parse_value(cur, f, checks, text) ==
    IF Len(text) = 0 THEN Outcome("false", cur)
    ELSE LET multiplier == Size_multiplier(text[Len(text)])
             r == IF multiplier = 1 THEN isize_from_str(text)
                  ELSE isize_from_str(strip_last(text))
         IN  IF ~r.ok THEN Outcome("false", cur)
             ELSE IF checks /\ mul_overflows(r.v, multiplier)
                  THEN Outcome("panic", cur)
             ELSE LET msize == wrapping_mul(r.v, multiplier) IN
                  IF validate(f, msize) THEN Outcome("true", msize)
                  ELSE Outcome("false", cur)

\* handler.parse_value(text) through the ValueHandler trait object
parse_value(h, cur, f, checks, text) ==
    CASE Handlers[h].kind = "Int" -> IntParameter_parse_value(cur, f, text)
      [] Handlers[h].kind = "Size" -> SizeParameter_parse_value(cur, f, checks, text)
      [] Handlers[h].kind = "String" -> StringParameter_parse_value(cur, text)
      [] Handlers[h].kind = "Enum" ->
             EnumParameter_parse_value(cur, Handlers[h].values, text)
      [] Handlers[h].kind = "Bool" -> BoolParameter_parse_value(cur, text)

\* A requires_value that answers true for the flag as well
requires_value_always(h) == TRUE

requires_value(h) == Handlers[h].kind # "Bool"

\* handler.set_value(): a no-op but for BoolParameter
set_value(h, cur) == IF Handlers[h].kind = "Bool" THEN TRUE ELSE cur

(***************************************************************************)
(* Switch                                                                  *)
(***************************************************************************)
\* Switch::new(name, switch, ext_switch, handler)
Switch_new(name, switch, ext_switch, handler) ==
    [name |-> name, switch |-> switch, ext_switch |-> ext_switch,
     handler |-> handler]

\* collect::<String>() of characters, as one string of the output
RECURSIVE Join(_)
Join(s) == IF s = <<>> THEN "" ELSE Head(s) \o Join(Tail(s))

\* EnumParameter::value_type joins the members of the HashSet with '|', in
\* the set's iteration order.
RECURSIVE join_values(_)
join_values(S) ==
    IF S = {} THEN ""
    ELSE LET v == CHOOSE x \in S : TRUE
             rest == S \ {v}
         IN  IF rest = {} THEN Join(v)
             ELSE Join(v) \o "|" \o join_values(rest)

value_type(h) ==
    CASE Handlers[h].kind = "Int" -> " int"
      [] Handlers[h].kind = "String" -> " string"
      [] Handlers[h].kind = "Enum" -> " " \o join_values(Handlers[h].values)
      [] Handlers[h].kind = "Bool" -> ""
      [] Handlers[h].kind = "Size" -> " size"

Switch_to_string(sw) ==
    LET keys ==
            IF sw.switch # None
            THEN " -" \o sw.switch[1] \o
                 (IF sw.ext_switch # None
                  THEN " (or --" \o Join(sw.ext_switch[1]) \o ")"
                  ELSE "")
            ELSE IF sw.ext_switch # None
                 THEN " --" \o Join(sw.ext_switch[1])
                 ELSE ""
    IN  keys \o value_type(sw.handler) \o " - " \o sw.name

(***************************************************************************)
(* Arguments                                                               *)
(***************************************************************************)
\* HashMap::new() and HashMap::insert: a later insert of a key replaces the
\* earlier entry.
EmptyMap == <<>>

map_insert(m, k, v) ==
    [x \in DOMAIN m \cup {k} |-> IF x = k THEN v ELSE m[x]]

RECURSIVE new_switch_map(_, _)
new_switch_map(sws, m) ==
    IF sws = <<>> THEN m
    ELSE LET sw == Head(sws) IN
         new_switch_map(Tail(sws),
                        IF sw.switch # None
                        THEN map_insert(m, sw.switch[1], sw) ELSE m)

RECURSIVE new_ext_switch_map(_, _)
new_ext_switch_map(sws, m) ==
    IF sws = <<>> THEN m
    ELSE LET sw == Head(sws) IN
         new_ext_switch_map(Tail(sws),
                            IF sw.ext_switch # None
                            THEN map_insert(m, sw.ext_switch[1], sw) ELSE m)

\* The state Arguments::new(program_name, sws, names) constructs.
Arguments_new(sws, names) ==
    /\ switches = sws
    /\ switch_map = new_switch_map(sws, EmptyMap)
    /\ ext_switch_map = new_ext_switch_map(sws, EmptyMap)
    /\ other_arguments = <<>>
    /\ other_argument_names = names

program_name == "cache"

starts_with(s, prefix) ==
    /\ Len(s) >= Len(prefix)
    /\ SubSeq(s, 1, Len(prefix)) = prefix

\* arg.chars().skip(n).collect()
skip(s, n) == SubSeq(s, n + 1, Len(s))

\* A push at the front
push_front(v, x) == <<x>> \o v

\* Vec::push
push(v, x) == Append(v, x)

\* Option::is_some
is_some(o) == o # None

\* An arity check that only refuses too few positionals
arity_too_few(names, others) == Len(names) > Len(others)

\* other_argument_names.len() != self.other_arguments.len()
arity_mismatch(names, others) == Len(names) # Len(others)

get_other_arguments == other_arguments

(***************************************************************************)
(* Texts and the initial state of the handlers.                            *)
(***************************************************************************)
RECURSIVE Strings(_, _)
Strings(chars, n) ==
    IF n = 0 THEN {<<>>}
    ELSE LET shorter == Strings(chars, n - 1) IN
         shorter \cup {Append(s, c) : s \in shorter, c \in chars}

ParseChars == {"5", "-", "G", "a"}

\* Texts beyond the short ones: the other suffixes and the sign '+', a bare
\* suffix, and the ends of isize's range as from_str and the multiplication
\* meet them.
EdgeTexts ==
    {<<"1", "K">>, <<"1", "M">>, <<"+", "5">>, <<"+", "5", "K">>,
     <<"K">>, <<"+">>, <<"5", "k">>, <<"0", "0", "7">>,
     <<"2", "1", "4", "7", "4", "8", "3", "6", "4", "7">>,
     <<"2", "1", "4", "7", "4", "8", "3", "6", "4", "8">>,
     <<"-", "2", "1", "4", "7", "4", "8", "3", "6", "4", "8">>,
     <<"-", "2", "1", "4", "7", "4", "8", "3", "6", "4", "9">>,
     <<"2", "0", "9", "7", "1", "5", "1", "K">>,
     <<"2", "0", "9", "7", "1", "5", "2", "K">>,
     <<"2", "0", "4", "8", "M">>,
     S_value, S_init}

Texts == Strings(ParseChars, MaxTextLen) \cup EdgeTexts

\* XxxParameter::new(value, ...): the value each handler is constructed with
InitialValues == [h \in HandlerNames |-> Handlers[h].init]

NoCall == [op |-> "none", h |-> "none", text |-> <<>>]

(***************************************************************************)
(* SpecParse: a program that constructs the handlers and calls one         *)
(* handler's ValueHandler methods directly, any number of times.           *)
(***************************************************************************)
InitParse ==
    /\ value = InitialValues
    /\ \E h \in HandlerNames :
           /\ call = [op |-> "new", h |-> h, text |-> <<>>]
           /\ validator \in (IF Handlers[h].kind \in {"Int", "Size"}
                             THEN Validators ELSE {"positive"})
           /\ overflow_checks \in (IF Handlers[h].kind = "Size"
                                   THEN BOOLEAN ELSE {FALSE})
    /\ switches = <<>>
    /\ switch_map = EmptyMap
    /\ ext_switch_map = EmptyMap
    /\ other_arguments = <<>>
    /\ other_argument_names = None
    /\ pc = "idle"
    /\ args = <<>>
    /\ i = 1
    /\ current_parameter = None
    /\ result = "none"
    /\ out = <<>>
    /\ used = 0

\* handler.parse_value(text), called by the program
CallParseValue(text) ==
    /\ pc = "idle"
    /\ LET h == call.h
           o == parse_value(h, value[h], validator, overflow_checks, text)
       IN  /\ value' = [value EXCEPT ![h] = o.value]
           /\ result' = o.ret
           /\ pc' = IF o.ret = "panic" THEN "panicked" ELSE "idle"
           /\ call' = [op |-> "parse_value", h |-> h, text |-> text]
    /\ UNCHANGED <<validator, overflow_checks, out>>
    /\ UNCHANGED argvars

\* handler.set_value(), called by the program
CallSetValue ==
    /\ pc = "idle"
    /\ LET h == call.h IN
           /\ value' = [value EXCEPT ![h] = set_value(h, value[h])]
           /\ call' = [op |-> "set_value", h |-> h, text |-> <<>>]
    /\ result' = "none"
    /\ UNCHANGED <<validator, overflow_checks, out, pc>>
    /\ UNCHANGED argvars

NextParse ==
    \/ \E text \in Texts : CallParseValue(text)
    \/ CallSetValue

SpecParse == InitParse /\ [][NextParse]_vars

(***************************************************************************)
(* Spec: a program that constructs the handlers, the switches and one      *)
(* Arguments, and calls build on it any number of times.                   *)
(***************************************************************************)
\* The switch array: the test's -p, -v and --ss, with a long key for the flag
\* as well.
TestSwitches ==
    <<Switch_new("port", Some("p"), None, "port"),
      Switch_new("verbose", Some("v"), Some(<<"v", "v">>), "verbose"),
      Switch_new("test", None, Some(<<"s", "s">>), "test")>>

NameLists == {None, Some(<<"arg1">>), Some(<<"arg1", "arg2">>)}

\* The tokens build is called with: the registered switches, a bare "--", a
\* bare "-", "-7" (no switch, and no value the validator accepts), and two
\* texts that start with no dash.
Tokens ==
    {<<"-", "p">>, <<"-", "v">>, <<"-", "-", "v", "v">>, <<"-", "-", "s", "s">>,
     <<"-", "-">>, <<"-">>, <<"-", "7">>, <<"7">>, <<"x">>}

ArgsUpTo == [n \in 0..MaxTokens |-> Strings(Tokens, n)]

Init ==
    /\ value = InitialValues
    /\ validator = "positive"
    /\ overflow_checks = FALSE   \* immaterial here: no SizeParameter is registered
    /\ \E names \in NameLists : Arguments_new(TestSwitches, names)
    /\ pc = "idle"
    /\ args = <<>>
    /\ i = 1
    /\ current_parameter = None
    /\ result = "none"
    /\ call = NoCall
    /\ out = <<>>
    /\ used = 0

\* A build that starts from an empty positional list
BuildCall_reset(a) ==
    /\ pc = "idle"
    /\ Len(a) <= MaxTokens - used
    /\ args' = a
    /\ i' = 1
    /\ current_parameter' = None
    /\ pc' = "scan"
    /\ result' = "none"
    /\ call' = [op |-> "build", h |-> "none", text |-> <<>>]
    /\ used' = used + Len(a)
    /\ other_arguments' = <<>>
    /\ UNCHANGED <<value, validator, overflow_checks, switch_map, ext_switch_map,
                   other_argument_names, out, switches>>

\* build(args) is entered: `let mut current_parameter = None`
BuildCall(a) ==
    /\ pc = "idle"
    /\ Len(a) <= MaxTokens - used
    /\ args' = a
    /\ i' = 1
    /\ current_parameter' = None
    /\ pc' = "scan"
    /\ result' = "none"
    /\ call' = [op |-> "build", h |-> "none", text |-> <<>>]
    /\ used' = used + Len(a)
    /\ UNCHANGED <<value, validator, overflow_checks, switch_map, ext_switch_map,
                   other_arguments, other_argument_names, out, switches>>

\* `return Err(Error::new(ErrorKind::InvalidInput, msg))` out of the loop
ReturnErr(msg) ==
    /\ result' = msg
    /\ pc' = "idle"
    /\ UNCHANGED <<value, other_arguments, current_parameter, i>>

\* The switch p was found in a map: it becomes the pending switch, or the
\* flag is set.
Recognised(p) ==
    /\ IF requires_value(p.handler)
       THEN /\ current_parameter' = Some(p)
            /\ value' = value
       ELSE /\ value' = [value EXCEPT
                           ![p.handler] = set_value(p.handler, value[p.handler])]
            /\ current_parameter' = current_parameter
    /\ i' = i + 1
    /\ UNCHANGED <<result, pc, other_arguments>>

\* A test of the pending switch that lets a token with a dash through to the
\* switch lookup
awaits_value_unless_dash(cur, arg) == is_some(cur) /\ ~starts_with(arg, <<"-">>)

\* `if let Some(p) = current_parameter`: the token arg is the pending
\* switch's value, whatever it is
awaits_value(cur, arg) == is_some(cur)

\* One iteration of `for arg in args`
ScanToken ==
    /\ pc = "scan"
    /\ i <= Len(args)
    /\ LET arg == args[i] IN
       IF awaits_value(current_parameter, arg)
       THEN LET p == current_parameter[1]
                o == parse_value(p.handler, value[p.handler], validator,
                                 overflow_checks, arg)
            IN  IF o.ret = "panic"
                THEN /\ result' = "panic"
                     /\ pc' = "panicked"
                     /\ UNCHANGED <<value, other_arguments, current_parameter, i>>
                ELSE IF o.ret = "false"
                THEN ReturnErr("invalid " \o p.name \o " value")
                ELSE /\ value' = [value EXCEPT ![p.handler] = o.value]
                     /\ current_parameter' = None
                     /\ i' = i + 1
                     /\ UNCHANGED <<result, pc, other_arguments>>
       ELSE IF starts_with(arg, <<"-">>)
       THEN IF starts_with(arg, <<"-", "-">>)
            THEN IF Len(arg) = 2
                 THEN ReturnErr("invalid ext_switch")
                 ELSE IF skip(arg, 2) \in DOMAIN ext_switch_map
                 THEN Recognised(ext_switch_map[skip(arg, 2)])
                 ELSE ReturnErr("unknown ext switch")
            ELSE IF Len(arg) # 2
                 THEN ReturnErr("invalid switch")
                 ELSE IF arg[2] \in DOMAIN switch_map
                 THEN Recognised(switch_map[arg[2]])
                 ELSE ReturnErr("unknown switch")
       ELSE /\ other_arguments' = push(other_arguments, arg)
            /\ i' = i + 1
            /\ UNCHANGED <<value, current_parameter, result, pc>>
    /\ UNCHANGED <<validator, overflow_checks, switch_map, ext_switch_map,
                   other_argument_names, args, call, out, switches, used>>

\* A return that leaves out the check of the pending switch
build_result_no_pending(cur, names, others) ==
    IF names # None /\ arity_mismatch(names[1], others)
    THEN "incorrect number of arguments"
    ELSE "Ok"

\* What build returns once the loop is over
build_result(cur, names, others) ==
    IF is_some(cur) THEN "switch value expected"
    ELSE IF names # None /\ arity_mismatch(names[1], others)
         THEN "incorrect number of arguments"
         ELSE "Ok"

\* The loop is over: the two checks after it, and the return.
BuildFinish ==
    /\ pc = "scan"
    /\ i > Len(args)
    /\ result' = build_result(current_parameter, other_argument_names,
                               other_arguments)
    /\ pc' = "idle"
    /\ UNCHANGED <<value, validator, overflow_checks, switch_map, ext_switch_map,
                   other_arguments, other_argument_names, args, i,
                   current_parameter, call, out, switches, used>>

Next ==
    \/ \E a \in ArgsUpTo[MaxTokens - used] : BuildCall(a)
    \/ ScanToken
    \/ BuildFinish

Spec == Init /\ [][Next]_vars

(***************************************************************************)
(* SpecUsage: a program that constructs one Arguments from a switch array  *)
(* and calls usage() on it.                                                *)
(***************************************************************************)
\* Switches of every shape: a short key, a long key, both, neither, and a
\* second switch registered under the key 'p'.
UsageSwitches ==
    {Switch_new("port", Some("p"), None, "port"),
     Switch_new("maximum_memory", Some("m"), Some(<<"m", "e", "m">>), "maximum_memory"),
     Switch_new("verbose", Some("v"), Some(<<"v", "v">>), "verbose"),
     Switch_new("test", None, Some(<<"s", "s">>), "test"),
     Switch_new("test_enum", Some("e"), None, "test_enum"),
     Switch_new("threads", Some("p"), None, "port"),
     Switch_new("hidden", None, None, "verbose")}

InitUsage ==
    /\ value = InitialValues
    /\ validator = "positive"
    /\ overflow_checks = FALSE
    /\ \E sws \in Strings(UsageSwitches, MaxSwitches), names \in NameLists :
           Arguments_new(sws, names)
    /\ pc = "idle"
    /\ args = <<>>
    /\ i = 1
    /\ current_parameter = None
    /\ result = "none"
    /\ call = NoCall
    /\ out = <<>>
    /\ used = 0

\* The orders a HashMap's iterator may visit the keys S in.
Orders(S) ==
    {o \in [1..Cardinality(S) -> S] : \A j, k \in DOMAIN o : j # k => o[j] # o[k]}

RECURSIVE usage_names(_)
usage_names(names) ==
    IF names = <<>> THEN ""
    ELSE " " \o Head(names) \o usage_names(Tail(names))

\* The first line of the usage text
usage_head(names) ==
    "Usage: " \o program_name \o
    (IF names # None THEN usage_names(names[1]) ELSE "")

\* The text usage() prints, as its lines, when the maps iterate in the orders
\* o1 and o2.
usage_text(o1, o2) ==
    <<usage_head(other_argument_names)>>
    \o [j \in DOMAIN o1 |-> Switch_to_string(switch_map[o1[j]])]
    \o [j \in DOMAIN o2 |-> Switch_to_string(ext_switch_map[o2[j]])]

Usage ==
    /\ pc = "idle"
    /\ \E o1 \in Orders(DOMAIN switch_map), o2 \in Orders(DOMAIN ext_switch_map) :
           out' = usage_text(o1, o2)
    /\ call' = [op |-> "usage", h |-> "none", text |-> <<>>]
    /\ UNCHANGED <<value, validator, overflow_checks, pc, result>>
    /\ UNCHANGED argvars

NextUsage == Usage

SpecUsage == InitUsage /\ [][NextUsage]_vars

(***************************************************************************)
(* The claims.  What follows reads the switch array and the token list     *)
(* directly; it does not use the maps or the scanner's actions.            *)
(***************************************************************************)
\* The spellings of the switches of the array sws bound to handler h
Spellings(sws, h) ==
    {<<"-", sws[k].switch[1]>> :
        k \in {k \in DOMAIN sws : sws[k].handler = h /\ sws[k].switch # None}}
    \cup
    {<<"-", "-">> \o sws[k].ext_switch[1] :
        k \in {k \in DOMAIN sws : sws[k].handler = h /\ sws[k].ext_switch # None}}

ValueHandlers == {h \in HandlerNames : Handlers[h].kind # "Bool"}

\* The token spells a registered switch that takes a value
TakesValue(tok) == \E h \in ValueHandlers : tok \in Spellings(switches, h)

\* The handler whose value switch the token spells
HandlerOf(tok) == CHOOSE h \in ValueHandlers : tok \in Spellings(switches, h)

BuildReturned == pc = "idle" /\ call.op = "build"

\* build was called once, on the Arguments as constructed
FirstBuild == used = Len(args)

\* The tokens the loop went through before build returned
Scanned == IF i > Len(args) THEN args ELSE SubSeq(args, 1, i - 1)

InSwitchPosition == pc = "scan" /\ i <= Len(args) /\ current_parameter = None

AwaitingValue == pc = "scan" /\ i <= Len(args) /\ current_parameter # None

\* The tokens of ts read in switch-or-positional position that start with
\* no dash, in order; pending says that the first token is a switch's value.
RECURSIVE Positionals(_, _)
Positionals(ts, pending) ==
    IF ts = <<>> THEN <<>>
    ELSE IF pending THEN Positionals(Tail(ts), FALSE)
    ELSE IF Head(ts)[1] = "-" THEN Positionals(Tail(ts), TakesValue(Head(ts)))
    ELSE <<Head(ts)>> \o Positionals(Tail(ts), FALSE)

\* Whether the list ts ends with a value switch still awaiting its value
RECURSIVE EndsPending(_, _)
EndsPending(ts, pending) ==
    IF ts = <<>> THEN pending
    ELSE IF pending THEN EndsPending(Tail(ts), FALSE)
    ELSE EndsPending(Tail(ts), TakesValue(Head(ts)))

T_p == <<"-", "p">>
T_ss == <<"-", "-", "s", "s">>
T_vv == <<"-", "-", "v", "v">>
T_v == <<"-", "v">>

\* A step of the loop taken while a switch awaits its value
C1_Step ==
    AwaitingValue =>
        LET p == current_parameter[1]
            arg == args[i]
        IN  /\ other_arguments' = other_arguments
            /\ \A h \in HandlerNames \ {p.handler} : value'[h] = value[h]
            /\ \/ /\ pc' = "scan"
                  /\ i' = i + 1
                  /\ current_parameter' = None
                  /\ result' = result
               \/ /\ pc' = "idle"
                  /\ result' = "invalid " \o p.name \o " value"
                  /\ value' = value
            /\ p.handler = "test" => pc' = "scan" /\ value'.test = arg
            /\ p.handler = "port" =>
                   LET r == isize_from_str(arg) IN
                   IF r.ok /\ r.v > 0
                   THEN pc' = "scan" /\ value'.port = r.v
                   ELSE pc' = "idle"

\* C1: in build, the token that follows a recognised value switch goes to
\* that switch's parse_value verbatim and to nothing else: it is not looked
\* up as a switch (no other handler changes, no flag is set, no error of the
\* switch lookup is raised) and it is not appended to the positionals,
\* whatever it starts with; the string handler stores it as it is, the
\* integer handler stores its number; after a successful parse the scanner
\* awaits a switch or a positional again, and after a failed one build
\* returns the error that names the switch.
C1_ValueTokenVerbatim == [][C1_Step]_vars

\* C1's case: "-p", which names a registered switch, was taken as the value
\* of --ss, and the scanner went on to scan a positional.
C1_Witness ==
    /\ value.test = T_p
    /\ value.port = 6379
    /\ args = <<T_ss, T_p, <<"x">>>>
    /\ other_arguments = <<<<"x">>>>
    /\ current_parameter = None

\* C2: after a successful build on a freshly constructed Arguments,
\* get_other_arguments is exactly the tokens read in switch-or-positional
\* position that start with no dash, in input order.
C2_PositionalsInOrder ==
    (BuildReturned /\ FirstBuild /\ result = "Ok") =>
        get_other_arguments = Positionals(args, FALSE)

\* C2's case: two different positionals around a switch and its value.
C2_Witness ==
    /\ BuildReturned /\ FirstBuild /\ result = "Ok"
    /\ args = <<<<"7">>, T_ss, <<"x">>, <<"x">>>>
    /\ get_other_arguments = <<<<"7">>, <<"x">>>>

\* C3: a build call whose scan raised no error and left no switch pending
\* returns Ok if the expected-name list is absent or as long as the
\* positional list, and "incorrect number of arguments" otherwise.
C3_ArityCheck ==
    (BuildReturned /\ i > Len(args) /\ ~EndsPending(args, FALSE)) =>
        IF other_argument_names = None
        THEN result = "Ok"
        ELSE IF Len(other_argument_names[1]) = Len(other_arguments)
             THEN result = "Ok"
             ELSE result = "incorrect number of arguments"

\* C3's case: two names, and a token list with three positionals.
C3_Witness ==
    /\ BuildReturned /\ FirstBuild
    /\ other_argument_names = Some(<<"arg1", "arg2">>)
    /\ Len(other_arguments) = 3
    /\ result = "incorrect number of arguments"

\* C5: when the token list ends while a value switch awaits its value, build
\* returns "switch value expected", whatever the positional count.
C5_TrailingSwitch ==
    (BuildReturned /\ i > Len(args) /\ EndsPending(args, FALSE)) =>
        result = "switch value expected"

\* C5's case: the positional count matches the name list, and the list ends
\* with -p.
C5_Witness ==
    /\ BuildReturned
    /\ args = <<<<"x">>, T_p>>
    /\ other_argument_names = Some(<<"arg1">>)
    /\ other_arguments = <<<<"x">>>>
    /\ result = "switch value expected"

\* A step as it bears on the presence flag
C6_Step ==
    LET flag_token == InSwitchPosition /\ args[i] \in Spellings(switches, "verbose")
    IN  /\ value.verbose => value'.verbose
        /\ flag_token =>
               /\ value'.verbose
               /\ current_parameter' = None
               /\ pc' = "scan"
               /\ i' = i + 1
               /\ other_arguments' = other_arguments
        /\ (~value.verbose /\ value'.verbose) => flag_token

\* C6: the presence flag is false at construction; it becomes true exactly
\* in the step that scans a token spelling its switch in switch-or-positional
\* position, and never returns to false; that step leaves the scanner
\* awaiting a switch or a positional, and no switch that awaits a value is
\* ever the flag's (so build never hands the flag a value to parse).
C6_PresenceFlag ==
    /\ value.verbose = FALSE
    /\ [][C6_Step]_vars
    /\ [](current_parameter # None => current_parameter[1].handler # "verbose")

\* C6's case: --vv was scanned, and the token after it was scanned as a
\* positional.
C6_Witness ==
    /\ value.verbose = TRUE
    /\ args = <<T_vv, <<"x">>>>
    /\ other_arguments = <<<<"x">>>>
    /\ BuildReturned /\ FirstBuild

\* What handler h accepts of a text, and the value it then holds
Accepted(h, text) ==
    CASE h = "test" -> Some(text)
      [] h = "port" ->
             LET r == isize_from_str(text) IN
             IF r.ok /\ r.v > 0 THEN Some(r.v) ELSE None
      [] OTHER -> None

\* The value of the last occurrence of h's switch in ts whose value h
\* accepted (None when there is none); pending is the handler awaiting the
\* first token as its value, in a one-element sequence, or None.
RECURSIVE LastAccepted(_, _, _, _)
LastAccepted(h, ts, pending, last) ==
    IF ts = <<>> THEN last
    ELSE IF pending # None
    THEN LastAccepted(h, Tail(ts), None,
                      IF pending[1] = h /\ Accepted(h, Head(ts)) # None
                      THEN Accepted(h, Head(ts)) ELSE last)
    ELSE LastAccepted(h, Tail(ts),
                      IF TakesValue(Head(ts)) THEN Some(HandlerOf(Head(ts)))
                      ELSE None,
                      last)

\* C7: after build, a value handler whose switch occurred in the scanned
\* tokens with an accepted value holds the value of the last such
\* occurrence.
C7_LastOccurrenceWins ==
    BuildReturned =>
        \A h \in {"port", "test"} :
            LET last == LastAccepted(h, Scanned, None, None) IN
            last # None => value[h] = last[1]

\* C7's case: --ss occurs twice with different values.
C7_Witness ==
    /\ BuildReturned
    /\ args = <<T_ss, <<"x">>, T_ss, <<"7">>>>
    /\ value.test = <<"7">>
    /\ result = "Ok"

IsPrefix(s, t) == Len(s) <= Len(t) /\ SubSeq(t, 1, Len(s)) = s

\* A step as it bears on the positional list and the handler values
C10_Step ==
    /\ IsPrefix(other_arguments, other_arguments')
    /\ (pc = "idle" /\ pc' # "idle") =>
           /\ pc' = "scan" /\ i' = 1
           /\ value' = value
           /\ other_arguments' = other_arguments
    /\ (pc = "scan" /\ pc' = "idle") =>
           /\ value' = value
           /\ other_arguments' = other_arguments
           /\ result' # "none"
    /\ pc = "idle" => (value' = value /\ other_arguments' = other_arguments)
    /\ (InSwitchPosition /\ args[i][1] # "-") =>
           other_arguments' = Append(other_arguments, args[i])
    /\ (pc = "scan" /\ other_arguments' # other_arguments) =>
           (InSwitchPosition /\ args[i][1] # "-")

\* C10: across build calls nothing is reset or rolled back.  The positional
\* list only grows at its end, by the token scanned in switch-or-positional
\* position that starts with no dash; entering build changes neither the
\* positional list nor a handler value; an error return changes neither
\* (what the tokens before the failing one committed stays), and after it
\* nothing is scanned until the next call.
C10_NothingReset == [][C10_Step]_vars

\* C10's case: a second build, after a first that failed its arity check,
\* passes the check with the positional the first one left and its own; the
\* value the first build gave --ss is still there.
C10_Witness ==
    /\ BuildReturned
    /\ ~FirstBuild
    /\ other_argument_names = Some(<<"arg1", "arg2">>)
    /\ args = <<<<"7">>>>
    /\ other_arguments = <<<<"x">>, <<"7">>>>
    /\ value.test = T_v
    /\ value.verbose = FALSE
    /\ result = "Ok"

\* The value the claims expect a text to convert to, in a one-element
\* sequence, or None when the text has no such value: the decimal integer
\* for Integer, the decimal integer times the suffix's factor for Size (None
\* when the product is no isize), the text itself for an enumerated string.
SizeFactor(text) ==
    IF text = <<>> THEN 1
    ELSE CASE text[Len(text)] = "K" -> 1024
           [] text[Len(text)] = "M" -> 1024 * 1024
           [] text[Len(text)] = "G" -> 1024 * 1024 * 1024
           [] OTHER -> 1

SizeNumber(text) ==
    IF SizeFactor(text) = 1 THEN isize_from_str(text)
    ELSE isize_from_str(SubSeq(text, 1, Len(text) - 1))

Converted(h, text) ==
    CASE Handlers[h].kind = "Int" ->
             IF isize_from_str(text).ok THEN Some(isize_from_str(text).v)
             ELSE None
      [] Handlers[h].kind = "Size" ->
             IF /\ SizeNumber(text).ok
                /\ SizeNumber(text).v <= ISIZE_MAX \div SizeFactor(text)
                /\ SizeNumber(text).v >= ISIZE_MIN \div SizeFactor(text)
             THEN Some(SizeNumber(text).v * SizeFactor(text))
             ELSE None
      [] Handlers[h].kind = "Enum" -> Some(text)

Passes(h, v) ==
    CASE Handlers[h].kind = "Enum" -> v \in Handlers[h].values
      [] OTHER -> validator = "any" \/ v > 0

\* A parse_value call on an Integer, Size or Enumerated-string handler
C4_Step ==
    (call'.op = "parse_value" /\ Handlers[call'.h].kind \in {"Int", "Size", "Enum"}) =>
        LET h == call'.h
            c == Converted(h, call'.text)
        IN  IF c # None /\ Passes(h, c[1])
            THEN result' = "true" /\ value'[h] = c[1]
            ELSE result' = "false" /\ value'[h] = value[h]

\* C4: for the Integer, Size and Enumerated-string handlers, parse_value
\* returns true and stores the converted value exactly when the text
\* converts and the value passes the check; in every other case it returns
\* false and leaves the stored value as it was.  Hence the stored value is
\* always the constructor's or one that passed the check.
C4_CommitOnlyOnSuccess ==
    /\ [][C4_Step]_vars
    /\ [](\A h \in {"port", "maximum_memory", "test_enum"} :
              value[h] = Handlers[h].init \/ Passes(h, value[h]))

\* A parse_value call on the Size handler
C8_Step ==
    (call'.op = "parse_value" /\ call'.h = "maximum_memory") =>
        LET text == call'.text
            n == SizeNumber(text)
        IN  IF ~n.ok
            THEN result' = "false" /\ value'.maximum_memory = value.maximum_memory
            ELSE (validator = "any" \/ n.v > 0) =>
                     /\ result' = "true"
                     /\ n.v <= ISIZE_MAX \div SizeFactor(text)
                     /\ n.v >= ISIZE_MIN \div SizeFactor(text)
                     /\ value'.maximum_memory = n.v * SizeFactor(text)

\* C8: SizeParameter::parse_value of "<n>", "<n>K", "<n>M", "<n>G", for a
\* decimal n that parses as an isize and a validator that accepts the
\* result, stores n, n*1024, n*1024^2, n*1024^3; the empty string, a bare
\* suffix and a remainder that is no decimal integer are rejected with the
\* stored value unchanged.  (The sign of n * factor is the sign of n, which
\* is all the validators here look at.)
C8_SizeScaling == [][C8_Step]_vars

\* The switches usage() has to render: those the maps hold
Registered ==
    {switch_map[k] : k \in DOMAIN switch_map}
    \cup {ext_switch_map[k] : k \in DOMAIN ext_switch_map}

\* C9: after the first line, usage() prints one line per registered switch,
\* and no switch twice.
C9_OneLinePerSwitch ==
    call.op = "usage" =>
        /\ Len(out) = 1 + Cardinality(Registered)
        /\ \A j, k \in 2..Len(out) : j # k => out[j] # out[k]

====
